---- MODULE Spec2Model ----
(***************************************************************************)
(* The training-loop state machine of pretrain.py / finetune.py:           *)
(* Workspace construction, main, train (one action per statement group of  *)
(* a tick), eval, load_snapshot, save_snapshot and the KeyboardInterrupt   *)
(* handler of pretrain.main.                                               *)
(*                                                                         *)
(* cfg.num_train_frames and cfg.num_seed_frames are held in TENTHS of a    *)
(* frame, because load_snapshot divides the saved step count by 10 with    *)
(* true division; every other quantity is in its own unit.                 *)
(***************************************************************************)
EXTENDS Integers, Sequences, FiniteSets, TLC

\* ---------------------------------------------------------------- bounds
MaxRepeat == 2
MaxTrainFrames == 4
MaxSeedFrames == 2
MaxEvalEvery == 2
MaxEvalEpisodes == 2
MaxEpLen == 2
MaxProbeTotal == 6
MaxProbeStep == 8

\* the divisor of load_snapshot, and the unit cfg's frame budgets are held in
Tenth == 10

\* frames that cfg.snapshots may list
SnapshotFrames == {0, 2}

\* the counters a snapshot file found at start-up may carry
SavedSteps == {0, 1, 10}
MaxSavedEpisode == 1

VARIABLES
    variant,          \* "pretrain" or "finetune": which entry point runs
    cfg,              \* the configuration object (mutated by load_snapshot)
    cfg0,             \* the configuration as it was given to main
    snapshot,         \* the file load_snapshot reads: [exists, agent, _global_step, _global_episode]
    resume_marker,    \* finetune: root_dir / "snapshot.pt" exists
    env_ep_len,       \* the environments return LAST on every env_ep_len-th step call
    pc,               \* position of the process
    agent,            \* agent parameters: the number of updates they have received
    _global_step,
    _global_episode,
    time_step,        \* status of train's time_step: "NONE", "FIRST", "MID", "LAST"
    env_ep_step,      \* step calls of train_env since its last reset
    env_steps,        \* calls of train_env.step
    last_count,       \* LAST TimeSteps returned by train_env.step
    replay_adds,      \* calls of replay_storage.add
    update_calls,     \* calls of agent.update
    active_steps,     \* train_env.step calls made at num_seed_frames <= global_frame < num_train_frames
    tick_updated,     \* agent.update has been called in the current tick
    metrics,          \* train's metrics is not None
    eval_episode,     \* eval's local episode counter
    eval_env_steps,   \* calls of eval_env.step
    saves,            \* every save_snapshot executed, in order
    files,            \* snapshot_dir: the payload stored under each frame number
    loads,            \* snapshot files deserialized by torch.load
    start_episode,    \* _global_episode when train started
    tick_trace,       \* what the current tick has done so far, in order
    eval_metas,       \* calls of agent.init_meta made by the current call of eval
    flushes,          \* episode metrics blocks train has flushed to the logger
    probe             \* a query of a cadence predicate: [kind, total, every, step, result]

vars == <<variant, cfg, cfg0, snapshot, resume_marker, env_ep_len, pc, agent,
          _global_step, _global_episode, time_step, env_ep_step, env_steps,
          last_count, replay_adds, update_calls, active_steps, tick_updated,
          metrics, eval_episode, eval_env_steps, saves, files, loads,
          start_episode, tick_trace, eval_metas, flushes, probe>>

envVars == <<time_step, env_ep_step, env_steps, last_count, active_steps>>
setupVars == <<variant, cfg0, snapshot, resume_marker, env_ep_len, probe>>
diskVars == <<saves, files>>
logVars == <<tick_trace, eval_metas, flushes>>

\* ------------------------------------------------------- cadence predicates
CeilDiv(a, b) == -((-a) \div b)

\* utils.Until(until, action_repeat)(step); until is in tenths
Until(until, action_repeat, step) ==
    (step \div action_repeat) < CeilDiv(until, Tenth * action_repeat)

Divides(d, n) == \E k \in 0..n : n = k * d

\* utils.Every(every, action_repeat)(step)
Every(every, action_repeat, step) ==
    /\ (step \div action_repeat) # 0
    /\ Divides(every \div action_repeat, step \div action_repeat)

\* ------------------------------------------------------------ properties
global_step == _global_step
global_episode == _global_episode
global_frame == global_step * cfg.action_repeat

train_until_step(step) == Until(cfg.num_train_frames, cfg.action_repeat, step)
seed_until_step(step) == Until(cfg.num_seed_frames, cfg.action_repeat, step)
eval_every_step(step) == Every(cfg.eval_every_frames, cfg.action_repeat, step)
eval_until_episode(episode) == Until(cfg.num_eval_episodes * Tenth, 1, episode)

\* ------------------------------------------------------------------ Init
NoFile == [exists |-> FALSE, agent |-> 0, _global_step |-> 0, _global_episode |-> 0]

StoredPayloads ==
    {[exists |-> TRUE, agent |-> s, _global_step |-> s, _global_episode |-> e] :
        <<s, e>> \in {x \in SavedSteps \X (0..MaxSavedEpisode) : x[2] <= x[1]}}

ConfigsOf(repeats, train_frames, seed_frames) ==
    {c \in [action_repeat : repeats,
            num_train_frames : {Tenth * n : n \in train_frames},
            num_seed_frames : {Tenth * n : n \in seed_frames},
            eval_every_frames : 1..MaxEvalEvery,
            num_eval_episodes : 1..MaxEvalEpisodes,
            snapshots : SUBSET SnapshotFrames,
            snapshot_ts : 0..1] :
        c.eval_every_frames >= c.action_repeat}

Configs == ConfigsOf(1..MaxRepeat, 0..MaxTrainFrames, 0..MaxSeedFrames)

IdleProbe == [kind |-> "idle", total |-> 0, every |-> 1, step |-> 0, result |-> FALSE]

InitProcess ==
    /\ pc = "new"
    /\ agent = 0
    /\ _global_step = 0
    /\ _global_episode = 0
    /\ time_step = "NONE"
    /\ env_ep_step = 0
    /\ env_steps = 0
    /\ last_count = 0
    /\ replay_adds = 0
    /\ update_calls = 0
    /\ active_steps = 0
    /\ tick_updated = FALSE
    /\ metrics = FALSE
    /\ eval_episode = 0
    /\ eval_env_steps = 0
    /\ saves = <<>>
    /\ files = {}
    /\ loads = 0
    /\ start_episode = 0
    /\ tick_trace = <<>>
    /\ eval_metas = 0
    /\ flushes = 0

InitSetup(configs) ==
    /\ variant \in {"pretrain", "finetune"}
    /\ cfg \in configs
    /\ cfg0 = cfg
    /\ snapshot \in {NoFile} \cup StoredPayloads
    /\ resume_marker \in BOOLEAN
    /\ variant = "pretrain" => cfg.snapshot_ts = 0 /\ resume_marker = snapshot.exists
    /\ variant = "finetune" => cfg.snapshots = {}

Init ==
    /\ InitSetup(Configs)
    /\ env_ep_len \in 1..MaxEpLen
    /\ probe = IdleProbe
    /\ InitProcess

\* ------------------------------------------------------------- snapshots
\* save_snapshot writing every payload to one fixed file name
save_snapshot_fixed_name(by) ==
    LET payload == [frame |-> 0, agent |-> agent,
                    _global_step |-> _global_step,
                    _global_episode |-> _global_episode]
    IN  /\ saves' = Append(saves, [by |-> by, payload |-> payload])
        /\ files' = {f \in files : f.frame # 0} \cup {payload}

\* Workspace.save_snapshot
save_snapshot(by) ==
    LET payload == [frame |-> global_frame, agent |-> agent,
                    _global_step |-> _global_step,
                    _global_episode |-> _global_episode]
    IN  /\ saves' = Append(saves, [by |-> by, payload |-> payload])
        /\ files' = {f \in files : f.frame # global_frame} \cup {payload}

\* the reconciliation subtracting the seed budget configured before the load
ReconcileBudget_stale_seed(c, S) ==
    [c EXCEPT !.num_seed_frames = (S * Tenth) \div 10,
              !.num_train_frames = @ - (S * Tenth + c.num_seed_frames)]

\* the budget reconciliation of pretrain's load_snapshot
ReconcileBudget(c, S) ==
    LET seeded == [c EXCEPT !.num_seed_frames = (S * Tenth) \div 10]
    IN  [seeded EXCEPT !.num_train_frames = @ - (S * Tenth + seeded.num_seed_frames)]

\* pretrain.Workspace.load_snapshot
load_snapshot_pretrain ==
    /\ loads' = loads + 1
    /\ agent' = snapshot.agent
    /\ cfg' = ReconcileBudget(cfg, snapshot._global_step)
    /\ _global_episode' = snapshot._global_episode
    /\ UNCHANGED _global_step

\* ---------------------------------------------------- construction and main
\* a constructor that takes the counters of the pretrained payload too
Construct_restores_counters ==
    /\ pc = "new"
    /\ IF variant = "finetune" /\ cfg.snapshot_ts > 0
       THEN IF snapshot.exists
            THEN /\ loads' = loads + 1
                 /\ agent' = snapshot.agent
                 /\ _global_step' = snapshot._global_step
                 /\ _global_episode' = snapshot._global_episode
                 /\ pc' = "main"
            ELSE /\ pc' = "failed"
                 /\ UNCHANGED <<loads, agent, _global_step, _global_episode>>
       ELSE /\ pc' = "main"
            /\ UNCHANGED <<loads, agent, _global_step, _global_episode>>
    /\ UNCHANGED <<logVars, cfg, setupVars, envVars, diskVars, replay_adds, update_calls,
                   tick_updated, metrics, eval_episode, eval_env_steps, start_episode>>

\* Workspace.__init__
Construct ==
    /\ pc = "new"
    /\ IF variant = "finetune" /\ cfg.snapshot_ts > 0
       THEN IF snapshot.exists
            THEN /\ loads' = loads + 1
                 /\ agent' = snapshot.agent
                 /\ pc' = "main"
            ELSE /\ pc' = "failed"
                 /\ UNCHANGED <<loads, agent>>
       ELSE /\ pc' = "main"
            /\ UNCHANGED <<loads, agent>>
    /\ _global_step' = 0
    /\ _global_episode' = 0
    /\ UNCHANGED <<logVars, cfg, setupVars, envVars, diskVars, replay_adds, update_calls,
                   tick_updated, metrics, eval_episode, eval_env_steps, start_episode>>

\* a main whose load_snapshot goes on when the file is missing
MainLoad_ignores_missing ==
    /\ pc = "main"
    /\ IF variant = "pretrain"
       THEN IF snapshot.exists
            THEN load_snapshot_pretrain /\ pc' = "train"
            ELSE /\ pc' = "train"
                 /\ UNCHANGED <<loads, agent, cfg, _global_step, _global_episode>>
       ELSE /\ loads' = IF resume_marker /\ snapshot.exists THEN loads + 1 ELSE loads
            /\ pc' = "train"
            /\ UNCHANGED <<agent, cfg, _global_step, _global_episode>>
    /\ UNCHANGED <<logVars, setupVars, envVars, diskVars, replay_adds, update_calls,
                   tick_updated, metrics, eval_episode, eval_env_steps, start_episode>>

\* main: the resume check and the call of load_snapshot
MainLoad ==
    /\ pc = "main"
    /\ IF variant = "pretrain"
       THEN IF snapshot.exists
            THEN load_snapshot_pretrain /\ pc' = "train"
            ELSE /\ pc' = "train"
                 /\ UNCHANGED <<loads, agent, cfg, _global_step, _global_episode>>
       ELSE IF resume_marker
            THEN IF snapshot.exists
                 THEN /\ loads' = loads + 1
                      /\ pc' = "train"
                      /\ UNCHANGED <<agent, cfg, _global_step, _global_episode>>
                 ELSE /\ pc' = "failed"
                      /\ UNCHANGED <<loads, agent, cfg, _global_step, _global_episode>>
            ELSE /\ pc' = "train"
                 /\ UNCHANGED <<loads, agent, cfg, _global_step, _global_episode>>
    /\ UNCHANGED <<logVars, setupVars, envVars, diskVars, replay_adds, update_calls,
                   tick_updated, metrics, eval_episode, eval_env_steps, start_episode>>

\* ------------------------------------------------------------------ train
TrainPcs == {"train", "loop", "boundary", "milestone", "eval_check", "eval",
             "act", "update", "step", "add", "inc", "final_save", "train_return"}

\* train, up to the while loop
TrainBegin ==
    /\ pc = "train"
    /\ time_step' = "FIRST"
    /\ env_ep_step' = 0
    /\ replay_adds' = replay_adds + 1
    /\ metrics' = FALSE
    /\ start_episode' = _global_episode
    /\ pc' = "loop"
    /\ UNCHANGED <<logVars, cfg, setupVars, diskVars, agent, _global_step, _global_episode,
                   env_steps, last_count, active_steps, update_calls, tick_updated,
                   eval_episode, eval_env_steps, loads>>

\* while train_until_step(self.global_step)
LoopTest ==
    /\ pc = "loop"
    /\ pc' = IF train_until_step(global_step) THEN "boundary"
             ELSE IF variant = "pretrain" THEN "final_save" ELSE "done"
    /\ tick_updated' = FALSE
    /\ tick_trace' = <<>>
    /\ UNCHANGED <<eval_metas, flushes, cfg, setupVars, envVars, diskVars, agent, _global_step,
                   _global_episode, replay_adds, update_calls, metrics,
                   eval_episode, eval_env_steps, loads, start_episode>>

\* a boundary handler that flushes without looking at metrics
EpisodeBoundary_always_flushes ==
    /\ pc = "boundary"
    /\ IF time_step = "LAST"
       THEN /\ _global_episode' = _global_episode + 1
            /\ flushes' = flushes + 1
            /\ time_step' = "FIRST"
            /\ env_ep_step' = 0
            /\ replay_adds' = replay_adds + 1
            /\ tick_trace' = Append(tick_trace, "boundary")
       ELSE UNCHANGED <<_global_episode, flushes, time_step, env_ep_step,
                       replay_adds, tick_trace>>
    /\ pc' = IF variant = "pretrain" THEN "milestone" ELSE "eval_check"
    /\ UNCHANGED <<eval_metas, cfg, setupVars, diskVars, agent, _global_step, env_steps,
                   last_count, active_steps, update_calls, tick_updated, metrics,
                   eval_episode, eval_env_steps, loads, start_episode>>

\* a boundary handler that forgets to reset the environment
EpisodeBoundary_no_reset ==
    /\ pc = "boundary"
    /\ IF time_step = "LAST"
       THEN /\ _global_episode' = _global_episode + 1
            /\ flushes' = IF metrics THEN flushes + 1 ELSE flushes
            /\ replay_adds' = replay_adds + 1
            /\ tick_trace' = Append(tick_trace, "boundary")
       ELSE UNCHANGED <<_global_episode, flushes, replay_adds, tick_trace>>
    /\ pc' = IF variant = "pretrain" THEN "milestone" ELSE "eval_check"
    /\ UNCHANGED <<eval_metas, cfg, setupVars, envVars, diskVars, agent, _global_step,
                   update_calls, tick_updated, metrics,
                   eval_episode, eval_env_steps, loads, start_episode>>

\* if time_step.last(): ...
EpisodeBoundary ==
    /\ pc = "boundary"
    /\ IF time_step = "LAST"
       THEN /\ _global_episode' = _global_episode + 1
            /\ flushes' = IF metrics THEN flushes + 1 ELSE flushes
            /\ time_step' = "FIRST"
            /\ env_ep_step' = 0
            /\ replay_adds' = replay_adds + 1
            /\ tick_trace' = Append(tick_trace, "boundary")
       ELSE UNCHANGED <<_global_episode, flushes, time_step, env_ep_step,
                       replay_adds, tick_trace>>
    /\ pc' = IF variant = "pretrain" THEN "milestone" ELSE "eval_check"
    /\ UNCHANGED <<eval_metas, cfg, setupVars, diskVars, agent, _global_step, env_steps,
                   last_count, active_steps, update_calls, tick_updated, metrics,
                   eval_episode, eval_env_steps, loads, start_episode>>

\* a milestone test on the step count instead of the frame count
Milestone_by_step ==
    /\ pc = "milestone"
    /\ IF global_step \in cfg.snapshots
       THEN save_snapshot("milestone") /\ tick_trace' = Append(tick_trace, "save")
       ELSE UNCHANGED <<diskVars, tick_trace>>
    /\ pc' = "eval_check"
    /\ UNCHANGED <<eval_metas, flushes, cfg, setupVars, envVars, agent, _global_step, _global_episode,
                   replay_adds, update_calls, tick_updated, metrics, eval_episode,
                   eval_env_steps, loads, start_episode>>

\* if self.global_frame in self.cfg.snapshots: self.save_snapshot()
Milestone ==
    /\ pc = "milestone"
    /\ IF global_frame \in cfg.snapshots
       THEN save_snapshot("milestone") /\ tick_trace' = Append(tick_trace, "save")
       ELSE UNCHANGED <<diskVars, tick_trace>>
    /\ pc' = "eval_check"
    /\ UNCHANGED <<eval_metas, flushes, cfg, setupVars, envVars, agent, _global_step, _global_episode,
                   replay_adds, update_calls, tick_updated, metrics, eval_episode,
                   eval_env_steps, loads, start_episode>>

\* if eval_every_step(self.global_step): ... self.eval(), up to eval's while loop
EvalCheck ==
    /\ pc = "eval_check"
    /\ IF eval_every_step(global_step)
       THEN /\ pc' = "eval"
            /\ eval_episode' = 0
            /\ eval_metas' = 1
            /\ tick_trace' = Append(tick_trace, "eval")
       ELSE /\ pc' = "act"
            /\ UNCHANGED <<eval_episode, eval_metas, tick_trace>>
    /\ UNCHANGED <<flushes, cfg, setupVars, envVars, diskVars, agent, _global_step,
                   _global_episode, replay_adds, update_calls, tick_updated,
                   metrics, eval_env_steps, loads, start_episode>>

\* an eval episode run on train_env instead of eval_env
EvalEpisode_on_train_env ==
    /\ pc = "eval"
    /\ eval_until_episode(eval_episode)
    /\ env_steps' = env_steps + env_ep_len
    /\ time_step' = "LAST"
    /\ eval_episode' = eval_episode + 1
    /\ UNCHANGED <<logVars, cfg, setupVars, env_ep_step, last_count, active_steps, diskVars,
                   pc, agent, _global_step, _global_episode, replay_adds,
                   update_calls, tick_updated, metrics, eval_env_steps, loads,
                   start_episode>>

\* one iteration of eval's while loop: one episode on eval_env
EvalEpisode ==
    /\ pc = "eval"
    /\ eval_until_episode(eval_episode)
    /\ eval_env_steps' = eval_env_steps + env_ep_len
    /\ eval_episode' = eval_episode + 1
    /\ UNCHANGED <<logVars, cfg, setupVars, envVars, diskVars, pc, agent, _global_step,
                   _global_episode, replay_adds, update_calls, tick_updated,
                   metrics, loads, start_episode>>

\* eval's loop exit and its log block
EvalLog ==
    /\ pc = "eval"
    /\ ~eval_until_episode(eval_episode)
    /\ pc' = "act"
    /\ UNCHANGED <<logVars, cfg, setupVars, envVars, diskVars, agent, _global_step,
                   _global_episode, replay_adds, update_calls, tick_updated,
                   metrics, eval_episode, eval_env_steps, loads, start_episode>>

\* update_meta and act
Act ==
    /\ pc = "act"
    /\ tick_trace' = tick_trace \o <<"update_meta", "act">>
    /\ pc' = "update"
    /\ UNCHANGED <<eval_metas, flushes, cfg, setupVars, envVars, diskVars, agent, _global_step,
                   _global_episode, replay_adds, update_calls, tick_updated,
                   metrics, eval_episode, eval_env_steps, loads, start_episode>>

\* a tick that makes its milestone save after the update
Update_then_milestone ==
    /\ pc = "update"
    /\ IF ~seed_until_step(global_step)
       THEN /\ agent' = agent + 1
            /\ update_calls' = update_calls + 1
            /\ metrics' = TRUE
            /\ tick_updated' = TRUE
       ELSE UNCHANGED <<agent, update_calls, metrics, tick_updated>>
    /\ IF global_frame \in cfg.snapshots
       THEN save_snapshot("milestone")
       ELSE UNCHANGED diskVars
    /\ tick_trace' = tick_trace
                       \o (IF ~seed_until_step(global_step) THEN <<"update">> ELSE <<>>)
                       \o (IF global_frame \in cfg.snapshots THEN <<"save">> ELSE <<>>)
    /\ pc' = "step"
    /\ UNCHANGED <<eval_metas, flushes, cfg, setupVars, envVars, _global_step,
                   _global_episode, replay_adds, eval_episode, eval_env_steps, loads,
                   start_episode>>

\* an update gate that also treats step 0 as warm-up
Update_skips_step0 ==
    /\ pc = "update"
    /\ IF ~seed_until_step(global_step) /\ global_step > 0
       THEN /\ agent' = agent + 1
            /\ update_calls' = update_calls + 1
            /\ metrics' = TRUE
            /\ tick_updated' = TRUE
            /\ tick_trace' = Append(tick_trace, "update")
       ELSE UNCHANGED <<agent, update_calls, metrics, tick_updated, tick_trace>>
    /\ pc' = "step"
    /\ UNCHANGED <<eval_metas, flushes, cfg, setupVars, envVars, diskVars, _global_step, _global_episode,
                   replay_adds, eval_episode, eval_env_steps, loads, start_episode>>

\* if not seed_until_step(self.global_step): metrics = self.agent.update(...)
Update ==
    /\ pc = "update"
    /\ IF ~seed_until_step(global_step)
       THEN /\ agent' = agent + 1
            /\ update_calls' = update_calls + 1
            /\ metrics' = TRUE
            /\ tick_updated' = TRUE
            /\ tick_trace' = Append(tick_trace, "update")
       ELSE UNCHANGED <<agent, update_calls, metrics, tick_updated, tick_trace>>
    /\ pc' = "step"
    /\ UNCHANGED <<eval_metas, flushes, cfg, setupVars, envVars, diskVars, _global_step, _global_episode,
                   replay_adds, eval_episode, eval_env_steps, loads, start_episode>>

\* time_step = self.train_env.step(action)
EnvStep ==
    /\ pc = "step"
    /\ env_steps' = env_steps + 1
    /\ tick_trace' = Append(tick_trace, "step")
    /\ env_ep_step' = env_ep_step + 1
    /\ time_step' = IF env_ep_step + 1 >= env_ep_len THEN "LAST" ELSE "MID"
    /\ last_count' = IF env_ep_step + 1 >= env_ep_len THEN last_count + 1 ELSE last_count
    /\ active_steps' = IF /\ cfg.num_seed_frames <= global_frame * Tenth
                          /\ global_frame * Tenth < cfg.num_train_frames
                       THEN active_steps + 1 ELSE active_steps
    /\ pc' = "add"
    /\ UNCHANGED <<eval_metas, flushes, cfg, setupVars, diskVars, agent, _global_step, _global_episode,
                   replay_adds, update_calls, tick_updated, metrics, eval_episode,
                   eval_env_steps, loads, start_episode>>

\* an add that leaves out the TimeStep that ends an episode
ReplayAdd_drops_terminal ==
    /\ pc = "add"
    /\ replay_adds' = IF time_step = "LAST" THEN replay_adds ELSE replay_adds + 1
    /\ tick_trace' = Append(tick_trace, "add")
    /\ pc' = "inc"
    /\ UNCHANGED <<eval_metas, flushes, cfg, setupVars, envVars, diskVars, agent, _global_step,
                   _global_episode, update_calls, tick_updated, metrics,
                   eval_episode, eval_env_steps, loads, start_episode>>

\* self.replay_storage.add(time_step, meta)
ReplayAdd ==
    /\ pc = "add"
    /\ replay_adds' = replay_adds + 1
    /\ tick_trace' = Append(tick_trace, "add")
    /\ pc' = "inc"
    /\ UNCHANGED <<eval_metas, flushes, cfg, setupVars, envVars, diskVars, agent, _global_step,
                   _global_episode, update_calls, tick_updated, metrics,
                   eval_episode, eval_env_steps, loads, start_episode>>

\* self._global_step += 1
IncStep ==
    /\ pc = "inc"
    /\ _global_step' = _global_step + 1
    /\ tick_trace' = Append(tick_trace, "inc")
    /\ pc' = "loop"
    /\ UNCHANGED <<eval_metas, flushes, cfg, setupVars, envVars, diskVars, agent, _global_episode,
                   replay_adds, update_calls, tick_updated, metrics, eval_episode,
                   eval_env_steps, loads, start_episode>>

\* a train that returns after its loop without saving
FinalSave_missing ==
    /\ pc = "final_save"
    /\ pc' = "train_return"
    /\ UNCHANGED <<logVars, cfg, setupVars, envVars, diskVars, agent, _global_step,
                   _global_episode, replay_adds, update_calls, tick_updated, metrics,
                   eval_episode, eval_env_steps, loads, start_episode>>

\* the save_snapshot that follows pretrain's while loop
FinalSave ==
    /\ pc = "final_save"
    /\ save_snapshot("final")
    /\ pc' = "train_return"
    /\ UNCHANGED <<logVars, cfg, setupVars, envVars, agent, _global_step, _global_episode,
                   replay_adds, update_calls, tick_updated, metrics, eval_episode,
                   eval_env_steps, loads, start_episode>>

\* pretrain's train returns to main, which leaves the try block
TrainReturn ==
    /\ pc = "train_return"
    /\ pc' = "done"
    /\ UNCHANGED <<logVars, cfg, setupVars, envVars, diskVars, agent, _global_step,
                   _global_episode, replay_adds, update_calls, tick_updated,
                   metrics, eval_episode, eval_env_steps, loads, start_episode>>

\* a handler that exits without saving
KeyboardInterrupt_no_save ==
    /\ variant = "pretrain"
    /\ pc \in TrainPcs
    /\ pc' = "exited"
    /\ UNCHANGED <<logVars, cfg, setupVars, envVars, diskVars, agent, _global_step,
                   _global_episode, replay_adds, update_calls, tick_updated, metrics,
                   eval_episode, eval_env_steps, loads, start_episode>>

\* pretrain.main: except KeyboardInterrupt: save_snapshot(); exit()
KeyboardInterrupt ==
    /\ variant = "pretrain"
    /\ pc \in TrainPcs
    /\ save_snapshot("handler")
    /\ pc' = "exited"
    /\ UNCHANGED <<logVars, cfg, setupVars, envVars, agent, _global_step, _global_episode,
                   replay_adds, update_calls, tick_updated, metrics, eval_episode,
                   eval_env_steps, loads, start_episode>>

Next ==
    \/ Construct
    \/ MainLoad
    \/ TrainBegin
    \/ LoopTest
    \/ EpisodeBoundary
    \/ Milestone
    \/ EvalCheck
    \/ EvalEpisode
    \/ EvalLog
    \/ Act
    \/ Update
    \/ EnvStep
    \/ ReplayAdd
    \/ IncStep
    \/ FinalSave
    \/ TrainReturn
    \/ KeyboardInterrupt

Spec == Init /\ [][Next]_vars

\* ------------------------------------------- the end-to-end scenario of train
\* num_seed_frames = 0, action_repeat = 1, a budget of 9 frames, LAST on every
\* 3rd step call; a resumed pretraining run keeps these budgets only for a
\* snapshot saved at step 0
InitScenario ==
    /\ InitSetup(ConfigsOf({1}, {9}, {0}))
    /\ variant = "pretrain" => snapshot._global_step = 0
    /\ env_ep_len = 3
    /\ probe = IdleProbe
    /\ InitProcess

SpecScenario == InitScenario /\ [][Next]_vars

\* ------------------------------------- queries of the cadence predicates
InitProbe ==
    /\ probe \in [kind : {"new"}, total : 1..MaxProbeTotal, every : 1..MaxRepeat,
                   step : 0..MaxProbeStep, result : {FALSE}]
    /\ variant = "pretrain"
    /\ cfg = [action_repeat |-> 1, num_train_frames |-> 0, num_seed_frames |-> 0,
              eval_every_frames |-> 1, num_eval_episodes |-> 1, snapshots |-> {},
              snapshot_ts |-> 0]
    /\ cfg0 = cfg
    /\ snapshot = NoFile
    /\ resume_marker = FALSE
    /\ env_ep_len = 1
    /\ InitProcess

\* train_until_step(step) / seed_until_step(step) with until = total frames
ProbeUntil ==
    /\ probe.kind = "new"
    /\ probe' = [probe EXCEPT !.kind = "Until",
                              !.result = Until(probe.total * Tenth, probe.every, probe.step)]
    /\ UNCHANGED <<logVars, variant, cfg, cfg0, snapshot, resume_marker, env_ep_len, pc, agent,
                   _global_step, _global_episode, envVars, diskVars, replay_adds,
                   update_calls, tick_updated, metrics, eval_episode, eval_env_steps,
                   loads, start_episode>>

\* eval_every_step(step) with every = total frames
ProbeEvery ==
    /\ probe.kind = "new"
    /\ probe' = [probe EXCEPT !.kind = "Every",
                              !.result = Every(probe.total, probe.every, probe.step)]
    /\ UNCHANGED <<logVars, variant, cfg, cfg0, snapshot, resume_marker, env_ep_len, pc, agent,
                   _global_step, _global_episode, envVars, diskVars, replay_adds,
                   update_calls, tick_updated, metrics, eval_episode, eval_env_steps,
                   loads, start_episode>>

NextProbe == ProbeUntil \/ ProbeEvery

SpecProbe == InitProbe /\ [][NextProbe]_vars

\* ======================================================== the claims

\* ---------------------------------------------------------------- C1
\* C1 as amended: in the scenario (no seed frames, action_repeat 1, a budget of
\* 9 frames, LAST on every 3rd step call) a train that runs to its end has made
\* exactly 9 step calls and 9 agent.update calls, global_step is 9, and
\* global_episode is 2 above its value at the start of train: the 3rd LAST
\* comes back from the 9th step, after which the loop exits with no further
\* tick to count it.
C1_Scenario ==
    pc = "done" =>
        /\ env_steps = 9
        /\ _global_step = 9
        /\ update_calls = 9
        /\ last_count = 3
        /\ _global_episode = start_episode + 2

C1_Witness ==
    /\ pc = "done"
    /\ variant = "pretrain"
    /\ env_steps = 9
    /\ time_step = "LAST"

\* C1 as stated: the run ends with global_step == 9, global_episode == 3 and
\* 9 updates.
C1_Original ==
    pc = "done" =>
        /\ env_steps = 9
        /\ _global_step = 9
        /\ update_calls = 9
        /\ _global_episode = start_episode + 3

\* ---------------------------------------------------------------- C2
C2_StepAccounting ==
    /\ _global_step <= env_steps
    /\ env_steps <= _global_step + 1
    /\ pc \in {"loop", "boundary", "milestone", "eval_check", "eval", "act",
               "update", "step", "final_save", "train_return", "done"}
           => env_steps = _global_step

C2_EpisodeAccounting ==
    time_step # "NONE" =>
        _global_episode - start_episode
            = last_count - (IF time_step = "LAST" THEN 1 ELSE 0)

C2_Monotone ==
    /\ _global_step' >= _global_step
    /\ _global_episode' >= _global_episode
    /\ _global_episode' <= _global_episode + 1 \/ pc = "main"

\* C2 as amended: global_step and global_episode never decrease; every call of
\* train_env.step raises global_step by exactly 1; every LAST TimeStep that is
\* followed by another tick raises global_episode by exactly 1, once, and a LAST
\* returned by the last step before the loop exits is not counted at all.
C2_Counters ==
    /\ [](C2_StepAccounting /\ C2_EpisodeAccounting)
    /\ [][C2_Monotone]_vars

C2_Witness ==
    /\ pc = "done"
    /\ last_count >= 2
    /\ time_step = "LAST"
    /\ _global_episode = start_episode + last_count - 1

\* C2 as stated: at the end of train every LAST TimeStep the training
\* environment returned has raised global_episode by exactly 1.
C2_Original ==
    pc = "done" => _global_episode - start_episode = last_count

\* ---------------------------------------------------------------- C3
\* C3: after pretraining's load_snapshot of a payload with _global_step = S, S a
\* multiple of 10, cfg.num_seed_frames is S/10 and cfg.num_train_frames is
\* N - S - S/10 for the configured budget N, whatever num_seed_frames was
\* configured; S = 1000 and N = 100000 give 100 and 98900.
C3_Reconciled ==
    /\ (variant = "pretrain" /\ loads = 1 /\ snapshot._global_step % 10 = 0) =>
          /\ cfg.num_seed_frames = (snapshot._global_step \div 10) * Tenth
          /\ cfg.num_train_frames
                = cfg0.num_train_frames - snapshot._global_step * Tenth
                    - (snapshot._global_step \div 10) * Tenth
    /\ \A seed \in 0..MaxSeedFrames :
          LET c == ReconcileBudget([cfg0 EXCEPT !.num_train_frames = 100000 * Tenth,
                                                !.num_seed_frames = seed * Tenth], 1000)
          IN  /\ c.num_seed_frames = 100 * Tenth
              /\ c.num_train_frames = 98900 * Tenth

C3_Witness ==
    /\ variant = "pretrain"
    /\ loads = 1
    /\ snapshot._global_step = 10
    /\ cfg0.num_seed_frames = 0
    /\ cfg.num_seed_frames = Tenth
    /\ pc = "train"

\* ---------------------------------------------------------------- C4
\* C4: in fine-tuning, whatever counters the pretrained payload stores, train
\* starts with global_step == 0 and global_episode == 0 after the constructor's
\* load (snapshot_ts > 0) and after main's load_snapshot; the agent parameters
\* are the only thing taken from the payload, the configuration is untouched.
C4_Isolation ==
    (variant = "finetune" /\ pc = "train") =>
        /\ _global_step = 0
        /\ _global_episode = 0
        /\ cfg = cfg0
        /\ agent = IF cfg.snapshot_ts > 0 THEN snapshot.agent ELSE 0

C4_Witness ==
    /\ variant = "finetune"
    /\ pc = "train"
    /\ cfg.snapshot_ts > 0
    /\ loads = 2
    /\ snapshot._global_step > 0
    /\ snapshot._global_episode > 0
    /\ agent = snapshot.agent

\* ---------------------------------------------------------------- C5
\* C5: no step of a call of eval (the cadence test that enters it, each of its
\* episodes, its log block) changes global_step, global_episode, train's
\* time_step, the training environment, the replay store or the number of
\* agent.update calls; only the eval environment is stepped.
C5_Frame ==
    pc \in {"eval_check", "eval"} =>
        UNCHANGED <<_global_step, _global_episode, time_step, env_ep_step,
                    env_steps, last_count, replay_adds, update_calls, agent>>

C5_EvalIsolation == [][C5_Frame]_vars

C5_Witness ==
    /\ pc = "act"
    /\ cfg.num_eval_episodes > 1
    /\ eval_episode = cfg.num_eval_episodes
    /\ eval_env_steps >= cfg.num_eval_episodes * env_ep_len
    /\ _global_step > 0

\* ---------------------------------------------------------------- C6
SameFramePairs ==
    {p \in (DOMAIN saves) \X (DOMAIN saves) :
        p[1] < p[2] /\ saves[p[1]].payload.frame = saves[p[2]].payload.frame}

\* C6 as amended: two save_snapshot executions at the same global_frame in one
\* pretraining process go to the same path and store the same _global_step and
\* _global_episode; the agent parameters are the same too, except when the
\* first is a milestone save and the second the interrupt handler's save of the
\* same tick made after that tick's agent.update, where they differ by that one
\* update.
C6_Idempotence ==
    \A p \in SameFramePairs :
        LET a == saves[p[1]]
            b == saves[p[2]]
        IN  /\ a.payload._global_step = b.payload._global_step
            /\ a.payload._global_episode = b.payload._global_episode
            /\ \/ a.payload.agent = b.payload.agent
               \/ /\ a.by = "milestone"
                  /\ b.by = "handler"
                  /\ b.payload.agent = a.payload.agent + 1
            /\ \E f \in files : f = b.payload

C6_Witness ==
    \E p \in SameFramePairs :
        /\ saves[p[1]].by = "final"
        /\ saves[p[2]].by = "handler"
        /\ saves[p[1]].payload = saves[p[2]].payload
        /\ saves[p[1]].payload._global_step > 0

\* C6 as stated: the second payload written at a frame equals the first.
C6_Original ==
    \A p \in SameFramePairs : saves[p[1]].payload = saves[p[2]].payload

\* ---------------------------------------------------------------- C7
\* C7: Until(T, repeat), queried with the raw step counter, is true exactly for
\* the step counts 0 .. T/repeat - 1 (stated for the T that are multiples of
\* repeat, where T/repeat is a whole number of steps).
C7_Until ==
    (probe.kind = "Until" /\ probe.total % probe.every = 0) =>
        (probe.result <=> probe.step <= (probe.total \div probe.every) - 1)

\* ---------------------------------------------------------------- C8
\* C8: Every(I, repeat), queried with the raw step counter, is true exactly at
\* the step counts that are positive multiples of I/repeat (stated for the I
\* that are multiples of repeat, where I/repeat is a whole number of steps).
C8_Every ==
    (probe.kind = "Every" /\ probe.total % probe.every = 0) =>
        (probe.result <=> /\ probe.step > 0
                          /\ probe.step % (probe.total \div probe.every) = 0)

\* ---------------------------------------------------------------- C9
WholeSteps(frames) == frames % (Tenth * cfg.action_repeat) = 0

\* C9: in a tick, agent.update is called zero times if global_frame <
\* num_seed_frames and exactly once if num_seed_frames <= global_frame <
\* num_train_frames (stated for the budgets that are whole numbers of steps).
C9_WarmupGating ==
    (/\ pc = "step"
     /\ WholeSteps(cfg.num_seed_frames)
     /\ WholeSteps(cfg.num_train_frames)) =>
        /\ global_frame * Tenth < cfg.num_seed_frames => ~tick_updated
        /\ (/\ cfg.num_seed_frames <= global_frame * Tenth
            /\ global_frame * Tenth < cfg.num_train_frames) => tick_updated

\* ---------------------------------------------------------------- C10
TickPcs == {"boundary", "milestone", "eval_check", "eval", "act", "update",
            "step", "add", "inc"}

\* C10: a tick is executed only while global_frame < num_train_frames, so no
\* environment step is taken at or beyond the frame budget (stated for the
\* budgets that are whole numbers of steps).
C10_Budget ==
    (pc \in TickPcs /\ WholeSteps(cfg.num_train_frames)) =>
        global_frame * Tenth < cfg.num_train_frames

\* ---------------------------------------------------------------- C11
SavesBy(by) == {i \in DOMAIN saves : saves[i].by = by}

\* C11: a pretraining train that has left its loop (also a resumed one whose
\* reconciled budget is zero or negative, which runs no tick) has called
\* save_snapshot exactly once after the loop, and that snapshot carries the
\* final global_step and global_episode; fine-tuning writes no snapshot.
C11_FinalCheckpoint ==
    /\ (variant = "pretrain" /\ pc \in {"train_return", "done"}) =>
          /\ SavesBy("final") = {Len(saves)}
          /\ saves[Len(saves)].payload._global_step = _global_step
          /\ saves[Len(saves)].payload._global_episode = _global_episode
          /\ saves[Len(saves)].payload.frame = global_frame
          /\ _global_step = env_steps
    /\ pc \notin {"train_return", "done", "exited"} => SavesBy("final") = {}
    /\ variant = "finetune" => saves = <<>> /\ files = {}

C11_Witness ==
    /\ variant = "pretrain"
    /\ pc = "done"
    /\ snapshot._global_step = 10
    /\ cfg.num_train_frames < 0
    /\ env_steps = 0
    /\ Len(saves) = 1

\* ---------------------------------------------------------------- C12
\* C12: an interrupt can arrive at every position inside pretraining's train;
\* it is handled once: the handler's save_snapshot is the last save of the
\* process and the only one of the handler, its payload carries the
\* global_step and global_episode of the moment of interruption, and after it
\* the process has ended, with no further tick or environment step.
C12_Interrupt ==
    /\ (variant = "pretrain" /\ pc \in TrainPcs) => ENABLED KeyboardInterrupt
    /\ pc = "exited" <=> SavesBy("handler") # {}
    /\ pc = "exited" =>
          /\ SavesBy("handler") = {Len(saves)}
          /\ saves[Len(saves)].payload._global_step = _global_step
          /\ saves[Len(saves)].payload._global_episode = _global_episode
          /\ saves[Len(saves)].payload.agent = agent
          /\ ~ENABLED Next

C12_Witness ==
    /\ pc = "exited"
    /\ tick_trace = <<"boundary", "update_meta", "act", "update", "step", "add">>
    /\ env_steps = _global_step + 1
    /\ saves[Len(saves)].payload._global_step = _global_step
    /\ _global_step > 0

\* ---------------------------------------------------------------- C13
\* C13: in fine-tuning, a load_snapshot that finds no file at the resolved path
\* fails: the process goes no further than the failed call, agent.init_from is
\* not called and no tick runs; with snapshot_ts = 0 and no snapshot.pt in the
\* run directory nothing is loaded and train runs with the freshly made agent.
C13_MissingFatal ==
    variant = "finetune" =>
        /\ (~snapshot.exists /\ cfg.snapshot_ts > 0) => pc \in {"new", "failed"}
        /\ (~snapshot.exists /\ cfg.snapshot_ts = 0 /\ resume_marker)
              => pc \in {"new", "main", "failed"}
        /\ pc = "failed" =>
              /\ ~snapshot.exists
              /\ agent = 0
              /\ loads = 0
              /\ env_steps = 0
              /\ time_step = "NONE"
              /\ ~ENABLED Next
        /\ (cfg.snapshot_ts = 0 /\ ~resume_marker) =>
              /\ pc # "failed"
              /\ loads = 0
              /\ agent = update_calls

C13_Witness ==
    /\ variant = "finetune"
    /\ pc = "failed"
    /\ cfg.snapshot_ts = 0
    /\ resume_marker
    /\ ~snapshot.exists

\* ---------------------------------------------------------------- C14
TickOrder == <<"boundary", "save", "eval", "update_meta", "act", "update",
               "step", "add", "inc">>

Rank(e) == CHOOSE i \in DOMAIN TickOrder : TickOrder[i] = e

TraceSet == {tick_trace[i] : i \in DOMAIN tick_trace}

\* the parameters the agent had when the process started train
BaseAgent ==
    IF variant = "pretrain"
    THEN IF loads > 0 THEN snapshot.agent ELSE 0
    ELSE IF cfg.snapshot_ts > 0 THEN snapshot.agent ELSE 0

\* C14: what a tick does, it does in the order episode boundary, milestone
\* save_snapshot, eval, update_meta, act, agent.update, train_env.step, replay
\* add, increment of global_step, and a completed tick has done the last five
\* but for the update; so the milestone save and eval of a tick see an agent
\* with exactly the updates of the earlier ticks and a global_step equal to the
\* number of environment steps taken.
C14_TickOrder ==
    /\ \A i, j \in DOMAIN tick_trace :
          i < j => Rank(tick_trace[i]) < Rank(tick_trace[j])
    /\ (pc = "loop" /\ tick_trace # <<>>) =>
          {"update_meta", "act", "step", "add", "inc"} \subseteq TraceSet
    /\ pc \in {"milestone", "eval_check", "eval"} =>
          /\ TraceSet \subseteq {"boundary", "save", "eval"}
          /\ ~tick_updated
          /\ agent = BaseAgent + update_calls
          /\ _global_step = env_steps
    /\ \A i \in SavesBy("milestone") :
          /\ saves[i].payload._global_step * cfg.action_repeat = saves[i].payload.frame
          /\ saves[i].payload.agent <= BaseAgent + saves[i].payload._global_step
    /\ (tick_trace # <<>> /\ tick_trace[Len(tick_trace)] = "save") =>
          /\ saves[Len(saves)].payload.agent = BaseAgent + update_calls
          /\ saves[Len(saves)].payload._global_step = env_steps

C14_Witness ==
    /\ variant = "pretrain"
    /\ pc = "loop"
    /\ tick_trace = TickOrder
    /\ update_calls >= 2

\* ---------------------------------------------------------------- C15
\* C15: a call of eval runs exactly num_eval_episodes episodes on the eval
\* environment, and by the time its loop exits it has called agent.init_meta
\* once for each of them.
C15_EvalEpisodes ==
    pc = "eval" =>
        /\ eval_episode <= cfg.num_eval_episodes
        /\ eval_metas <= eval_episode + 1
        /\ eval_episode = cfg.num_eval_episodes => eval_metas = cfg.num_eval_episodes

\* ---------------------------------------------------------------- C16
\* C16: in a pretraining process resumed from a snapshot taken after S steps
\* (S * action_repeat frames, within an original budget of whole steps),
\* the frames consumed before the snapshot (S * action_repeat) plus the frames
\* the resumed train has consumed never exceed the original num_train_frames,
\* and the resumed train consumes strictly fewer frames than that when S > 0.
C16_NoDoubleCount ==
    (/\ variant = "pretrain"
     /\ loads > 0
     /\ cfg0.num_train_frames % (Tenth * cfg.action_repeat) = 0
     /\ Tenth * cfg.action_repeat * snapshot._global_step <= cfg0.num_train_frames) =>
        /\ Tenth * cfg.action_repeat * (snapshot._global_step + env_steps)
              <= cfg0.num_train_frames
        /\ snapshot._global_step > 0 =>
              Tenth * cfg.action_repeat * env_steps < cfg0.num_train_frames

\* ---------------------------------------------------------------- C17
WritesOf(F) == {i \in DOMAIN saves : saves[i].payload.frame = F}

\* the milestones the run passes: multiples of action_repeat below the budget
DueMilestones ==
    {F \in cfg.snapshots :
        F % cfg.action_repeat = 0 /\ F * Tenth < cfg.num_train_frames}

\* C17 as amended: the milestone save writes snapshot_<F>.pt once, in the tick
\* where global_frame = F, for F in cfg.snapshots only; a run that returns
\* from train has written each due milestone file exactly once; the only
\* second write of a file is the interrupt handler's.
C17_WriteOnce ==
    variant = "pretrain" =>
        /\ \A i \in SavesBy("milestone") :
              /\ saves[i].payload.frame \in cfg.snapshots
              /\ saves[i].payload._global_step * cfg.action_repeat = saves[i].payload.frame
              /\ WritesOf(saves[i].payload.frame) \cap SavesBy("milestone") = {i}
        /\ (/\ pc \in {"eval_check", "eval", "act", "update", "step", "add", "inc"}
            /\ global_frame \in cfg.snapshots) =>
              WritesOf(global_frame) \cap SavesBy("milestone") # {}
        /\ \A F \in cfg.snapshots :
              /\ Cardinality(WritesOf(F)) <= 2
              /\ Cardinality(WritesOf(F)) = 2 =>
                    (pc = "exited" /\ Len(saves) \in WritesOf(F))
        /\ pc \in {"train_return", "done"} =>
              \A F \in DueMilestones :
                  /\ Cardinality(WritesOf(F)) = 1
                  /\ WritesOf(F) \subseteq SavesBy("milestone")

C17_Witness ==
    /\ variant = "pretrain"
    /\ pc = "exited"
    /\ \E F \in DueMilestones :
          /\ F > 0
          /\ Cardinality(WritesOf(F)) = 2
          /\ WritesOf(F) \cap SavesBy("milestone") # {}
          /\ saves[Len(saves)].payload.agent > saves[Len(saves) - 1].payload.agent

\* C17 as stated: every due milestone file is written exactly once over the
\* whole process, a process ended by the interrupt handler included.
C17_Original ==
    variant = "pretrain" =>
        /\ \A F \in DueMilestones : Cardinality(WritesOf(F)) <= 1
        /\ pc \in {"train_return", "done"} =>
              \A F \in DueMilestones : Cardinality(WritesOf(F)) = 1

\* ---------------------------------------------------------------- C18
\* C18: one process start deserializes a snapshot file at most once, whatever
\* snapshot_ts is and whether or not the resume marker file exists.
C18_ReadOnce == loads <= 1

\* ---------------------------------------------------------------- C19
\* episode boundaries train has handled
Boundaries == _global_episode - start_episode

C19_Frame ==
    IF pc = "boundary" /\ time_step = "LAST" /\ pc' # "exited"
    THEN flushes' = flushes + (IF update_calls > 0 THEN 1 ELSE 0)
    ELSE flushes' = flushes

\* C19 as amended: a handled episode boundary flushes the episode metrics if
\* and only if agent.update has been called since train started (metrics is
\* not None); nothing else flushes them.
C19_Flush ==
    /\ [](metrics <=> update_calls > 0)
    /\ [](flushes <= Boundaries \/ pc \in {"new", "main", "train", "failed"})
    /\ [][C19_Frame]_vars

C19_Witness ==
    /\ pc = "milestone"
    /\ cfg.num_seed_frames > 0
    /\ Boundaries = 3
    /\ flushes = 1
    /\ tick_trace = <<"boundary">>

\* C19 as stated: every handled boundary flushes but the one that ends the
\* first episode of the run.
C19_Original ==
    (variant = "pretrain" /\ pc \notin {"new", "main", "train", "failed"}) =>
        flushes = IF Boundaries = 0 THEN 0 ELSE Boundaries - 1

\* ---------------------------------------------------------------- C20
LastEvent == IF tick_trace = <<>> THEN "none" ELSE tick_trace[Len(tick_trace)]

\* C20: once train has made its first reset, at the loop condition the replay adds number
\* 1 + global_step + the boundaries handled; every TimeStep returned by reset
\* or step has been added once, the one just returned by step excepted until
\* its add; and the adds run one ahead of the counters only between that add
\* and the increment of global_step.
C20_ReplayAccounting ==
    time_step # "NONE" =>
        /\ pc = "loop" => replay_adds = 1 + _global_step + Boundaries
        /\ replay_adds = 1 + Boundaries + env_steps - (IF LastEvent = "step" THEN 1 ELSE 0)
        /\ replay_adds = 1 + _global_step + Boundaries + (IF LastEvent = "add" THEN 1 ELSE 0)
        /\ LastEvent = "step" => pc \in {"add", "exited"}
        /\ LastEvent = "add" => pc \in {"inc", "exited"}

C20_Witness ==
    /\ pc = "exited"
    /\ LastEvent = "add"
    /\ Boundaries >= 2
    /\ replay_adds = 2 + _global_step + Boundaries
    /\ saves[Len(saves)].payload._global_step = replay_adds - 2 - Boundaries

\* ---------------------------------------------------------------- C21
\* C21: after pretraining's load_snapshot of a payload with _global_step = S
\* and _global_episode = E, global_episode is E and global_step is S, and
\* every snapshot the resumed run writes carries a step count, and a frame in
\* its name, that continue from S.
C21_ResumeCounters ==
    (variant = "pretrain" /\ loads > 0) =>
        /\ pc = "train" =>
              /\ global_episode = snapshot._global_episode
              /\ global_step = snapshot._global_step
        /\ \A i \in DOMAIN saves :
              /\ saves[i].payload._global_step >= snapshot._global_step
              /\ saves[i].payload.frame >= snapshot._global_step * cfg.action_repeat

====
